---- MODULE Spec2Model ----
(***************************************************************************)
(* Model of the agentic-workspace persistence layer and orchestrator.      *)
(*                                                                         *)
(*   storage.ts      the record store over localStorage (five keys)        *)
(*   data-export.ts  exportAllData / importAllData, and the App component  *)
(*                   (createFolder, upgradeToDepartment, createRoom,       *)
(*                   createAgent, deleteAgent, deleteFolder, sendMessage)  *)
(*                                                                         *)
(* localStorage is the function ls from key to raw item.  A raw item is    *)
(* absent (getItem returns null), the empty string, a text that is not     *)
(* JSON, the JSON text of an array, or the JSON text of an object.         *)
(***************************************************************************)
EXTENDS Integers, Sequences, FiniteSets, TLC

\* ------------------------------------------------------------------ bounds
MaxFolders == 2
MaxRooms == 4
MaxAgents == 2
MaxMsgs == 3
MaxTurns == 2
\* rooms created in the specification that runs turns
ChatRooms == 3
\* bounds of the record store called directly
StoreFolders == 2
StoreRooms == 2
StoreAgents == 2
StoreMsgs == 1
StoreLinks == 2
\* bounds of the specification of the reads: records inserted, and the latest
\* created_at / timestamp
ReadRecords == 3
MaxTime == 2
\* bounds of the specification of the turns: folders, rooms and messages
TurnFolders == 1
TurnRooms == 2
TurnMsgs == 4
\* bounds of the specification of the files: file identifiers, and calls of
\* file-storage.ts in flight at once
MaxFiles == 2
MaxCalls == 2
\* bound of the archive specification: records inserted before an export
ArchiveRecords == 2

\* ------------------------------------------------------------------ values
NULL == 0

\* generateId returns an identifier that was never returned before; the n-th
\* identifier of each kind is drawn from a range of its own.
FolderId(n) == n
RoomId(n) == 10 + n
AgentId(n) == 20 + n
MsgId(n) == 30 + n

KEYS ==
  [folders |-> "agentic_folders", agents |-> "agentic_agents", rooms |-> "agentic_rooms",
   roomAgents |-> "agentic_room_agents", messages |-> "agentic_messages"]

AI_SETTINGS_KEY == "agentic_ai_settings"

DATA_KEYS ==
  << "agentic_folders", "agentic_agents", "agentic_rooms",
     "agentic_room_agents", "agentic_messages", "agentic_ai_settings" >>

CollectionKeys ==
  {KEYS.folders, KEYS.agents, KEYS.rooms, KEYS.roomAgents, KEYS.messages}

AllKeys == {DATA_KEYS[i] : i \in 1..Len(DATA_KEYS)}

\* Raw items of localStorage.
NoItem == [kind |-> "null", arr |-> <<>>, obj |-> ""]
EmptyText == [kind |-> "empty", arr |-> <<>>, obj |-> ""]
CorruptText == [kind |-> "corrupt", arr |-> <<>>, obj |-> ""]
\* The JSON text of array a cut short: JSON.parse throws on it.
TruncatedText(a) == [kind |-> "corrupt", arr |-> a, obj |-> ""]
ArrayText(a) == [kind |-> "array", arr |-> a, obj |-> ""]
ObjectText(o) == [kind |-> "object", arr |-> <<>>, obj |-> o]

\* JSON.stringify of an array of plain records.
stringify(a) == ArrayText(a)

\* `data ? ... : ...`: null and "" are falsy.
Truthy(raw) == raw.kind \notin {"null", "empty"}

EmptyStore == [k \in AllKeys |-> NoItem]

VARIABLES
  ls,            \* localStorage: key -> raw item
  nF, nR, nA, nM,\* identifiers generated so far, per kind
  clock,         \* new Date(): the wall clock (it never runs backwards, so the
                 \* stable sort of getMessages keeps the order of insertion)
  activeFolder,  \* App state: the selected Folder (NoFolder for null)
  activeRoom,    \* App state: the selected Room (NoRoom for null)
  agents,        \* App state: agents of the active folder, as last loaded
  roomAgents,    \* App state: agents of the active room, as last loaded
  messages,      \* App state: messages shown, as last loaded or appended
  isLoading,     \* App state: the busy flag
  turns,         \* sendMessage invocations suspended at an await
  nT,            \* sendMessage invocations accepted so far
  turnLog,       \* history: the turn that ended last, until another handler runs
  download,      \* the archive written by the last exportAllData
  exported,      \* history: localStorage as it was at the last exportAllData
  result,        \* history: what the last read of the record store returned
  idb,           \* IndexedDB agentic_files_db: its two object stores, as committed
  fileCalls,     \* calls of file-storage.ts suspended at an await
  last           \* history: the operation that ran last, with its arguments

storeVars == << ls, nF, nR, nA, nM >>
appVars == << activeFolder, activeRoom, agents, roomAgents, messages, isLoading, turns,
              nT, turnLog >>
archiveVars == << download, exported >>
fileVars == << idb, fileCalls >>
auxVars == << result, idb, fileCalls >>
vars == << ls, nF, nR, nA, nM, clock, activeFolder, activeRoom, agents, roomAgents,
           messages, isLoading, turns, nT, turnLog, download, exported, result,
           idb, fileCalls, last >>

NoFolder == [id |-> NULL, name |-> "", parent_id |-> NULL, created_at |-> 0]
NoRoom == [id |-> NULL, folder_id |-> NULL, name |-> "", type |-> "", created_at |-> 0]

\* A turn: its number, the ids of its targets, how many of them were called, the
\* index of the one whose call failed (0 for none), the ids of its messages.
NoTurn == [no |-> 0, targets |-> <<>>, called |-> 0, failedAt |-> 0, msgs |-> <<>>]

Op(name, a, b, txt) == [op |-> name, a |-> a, b |-> b, txt |-> txt]

\* file-storage.ts: the object stores of the database (the key path of both is
\* id): the metadata records, as [id, folder_id], and the keys of the blob records.
STORE_META == "file_meta"
STORE_BLOBS == "file_blobs"
EmptyDB == [file_meta |-> {}, file_blobs |-> {}]

\* ------------------------------------------------------------------ sequences
RECURSIVE SelectSeqBy(_, _)
SelectSeqBy(s, keep) ==
  IF s = <<>> THEN <<>>
  ELSE (IF Head(s) \in keep THEN <<Head(s)>> ELSE <<>>) \o SelectSeqBy(Tail(s), keep)

Range(s) == {s[i] : i \in 1..Len(s)}

\* Array.prototype.filter with a predicate given as the set of kept elements.
Filter(s, keep) == SelectSeqBy(s, keep)

Count(s, x) == Cardinality({i \in 1..Len(s) : s[i] = x})

\* Array.prototype.sort is stable: elements with equal keys keep their order.
RECURSIVE InsertByKey(_, _, _)
InsertByKey(x, kx, done) ==
  IF done = <<>> THEN << <<kx, x>> >>
  ELSE IF Head(done)[1] <= kx THEN <<Head(done)>> \o InsertByKey(x, kx, Tail(done))
  ELSE << <<kx, x>> >> \o done

RECURSIVE SortPairs(_, _)
SortPairs(pairs, done) ==
  IF pairs = <<>> THEN done
  ELSE SortPairs(Tail(pairs), InsertByKey(Head(pairs)[2], Head(pairs)[1], done))

StableSort(pairs) ==
  LET sorted == SortPairs(pairs, <<>>) IN [i \in 1..Len(sorted) |-> sorted[i][2]]

\* ------------------------------------------------------------------ storage.ts
\* load reading what it can of a text that is not JSON, instead of catching.
load_Lenient(s, key) == IF s[key].kind \in {"array", "corrupt"} THEN s[key].arr ELSE <<>>

\* JSON.parse of the item when there is one, [] when there is none or it throws.
load(s, key) == IF s[key].kind = "array" THEN s[key].arr ELSE <<>>

save(s, key, data) == [s EXCEPT ![key] = stringify(data)]

\* getFolders sorting oldest first.
getFolders_OldestFirst(s) ==
  LET fs == load(s, KEYS.folders)
  IN StableSort([i \in 1..Len(fs) |-> << fs[i].created_at, fs[i] >>])

getFolders(s) ==
  LET fs == load(s, KEYS.folders)
  IN StableSort([i \in 1..Len(fs) |-> << 0 - fs[i].created_at, fs[i] >>])

addFolder(s, folder) == save(s, KEYS.folders, Append(load(s, KEYS.folders), folder))

removeFolder_KeepMessages(s, id) ==
  LET s1 == save(s, KEYS.folders,
                 Filter(load(s, KEYS.folders), {f \in Range(load(s, KEYS.folders)) : f.id # id}))
      roomIds == {r.id : r \in {x \in Range(load(s1, KEYS.rooms)) : x.folder_id = id}}
      s2 == save(s1, KEYS.rooms,
                 Filter(load(s1, KEYS.rooms), {r \in Range(load(s1, KEYS.rooms)) : r.folder_id # id}))
      s3 == save(s2, KEYS.agents,
                 Filter(load(s2, KEYS.agents), {a \in Range(load(s2, KEYS.agents)) : a.folder_id # id}))
  IN save(s3, KEYS.roomAgents,
          Filter(load(s3, KEYS.roomAgents),
                 {ra \in Range(load(s3, KEYS.roomAgents)) : ra.room_id \notin roomIds}))

\* removeFolder without the cascade to the agents of the folder.
removeFolder_KeepAgents(s, id) ==
  LET s1 == save(s, KEYS.folders,
                 Filter(load(s, KEYS.folders), {f \in Range(load(s, KEYS.folders)) : f.id # id}))
      roomIds == {r.id : r \in {x \in Range(load(s1, KEYS.rooms)) : x.folder_id = id}}
      s2 == save(s1, KEYS.rooms,
                 Filter(load(s1, KEYS.rooms), {r \in Range(load(s1, KEYS.rooms)) : r.folder_id # id}))
      s4 == save(s2, KEYS.roomAgents,
                 Filter(load(s2, KEYS.roomAgents),
                        {ra \in Range(load(s2, KEYS.roomAgents)) : ra.room_id \notin roomIds}))
  IN save(s4, KEYS.messages,
          Filter(load(s4, KEYS.messages),
                 {m \in Range(load(s4, KEYS.messages)) : m.room_id \notin roomIds}))

\* removeFolder taking the child folders of the folder away with it.
removeFolder_WithChildren(s, id) ==
  LET s1 == save(s, KEYS.folders,
                 Filter(load(s, KEYS.folders),
                        {f \in Range(load(s, KEYS.folders)) : f.id # id /\ f.parent_id # id}))
      roomIds == {r.id : r \in {x \in Range(load(s1, KEYS.rooms)) : x.folder_id = id}}
      s2 == save(s1, KEYS.rooms,
                 Filter(load(s1, KEYS.rooms), {r \in Range(load(s1, KEYS.rooms)) : r.folder_id # id}))
      s3 == save(s2, KEYS.agents,
                 Filter(load(s2, KEYS.agents), {a \in Range(load(s2, KEYS.agents)) : a.folder_id # id}))
      s4 == save(s3, KEYS.roomAgents,
                 Filter(load(s3, KEYS.roomAgents),
                        {ra \in Range(load(s3, KEYS.roomAgents)) : ra.room_id \notin roomIds}))
  IN save(s4, KEYS.messages,
          Filter(load(s4, KEYS.messages),
                 {m \in Range(load(s4, KEYS.messages)) : m.room_id \notin roomIds}))

removeFolder(s, id) ==
  LET s1 == save(s, KEYS.folders,
                 Filter(load(s, KEYS.folders), {f \in Range(load(s, KEYS.folders)) : f.id # id}))
      roomIds == {r.id : r \in {x \in Range(load(s1, KEYS.rooms)) : x.folder_id = id}}
      s2 == save(s1, KEYS.rooms,
                 Filter(load(s1, KEYS.rooms), {r \in Range(load(s1, KEYS.rooms)) : r.folder_id # id}))
      s3 == save(s2, KEYS.agents,
                 Filter(load(s2, KEYS.agents), {a \in Range(load(s2, KEYS.agents)) : a.folder_id # id}))
      s4 == save(s3, KEYS.roomAgents,
                 Filter(load(s3, KEYS.roomAgents),
                        {ra \in Range(load(s3, KEYS.roomAgents)) : ra.room_id \notin roomIds}))
  IN save(s4, KEYS.messages,
          Filter(load(s4, KEYS.messages),
                 {m \in Range(load(s4, KEYS.messages)) : m.room_id \notin roomIds}))

getRooms(s, folderId) ==
  Filter(load(s, KEYS.rooms), {r \in Range(load(s, KEYS.rooms)) : r.folder_id = folderId})

addRoom(s, room, agentIds) ==
  LET s1 == save(s, KEYS.rooms, Append(load(s, KEYS.rooms), room))
  IN IF Len(agentIds) > 0
     THEN save(s1, KEYS.roomAgents,
               load(s1, KEYS.roomAgents)
                 \o [i \in 1..Len(agentIds) |-> [room_id |-> room.id, agent_id |-> agentIds[i]]])
     ELSE s1

getRoomAgentIds(s, roomId) ==
  LET ra == Filter(load(s, KEYS.roomAgents),
                   {x \in Range(load(s, KEYS.roomAgents)) : x.room_id = roomId})
  IN [i \in 1..Len(ra) |-> ra[i].agent_id]

addRoomAgent(s, roomId, agentId) ==
  LET ra == load(s, KEYS.roomAgents)
  IN IF ~ \E i \in 1..Len(ra) : ra[i].room_id = roomId /\ ra[i].agent_id = agentId
     THEN save(s, KEYS.roomAgents, Append(ra, [room_id |-> roomId, agent_id |-> agentId]))
     ELSE s

getAgents(s, folderId) ==
  Filter(load(s, KEYS.agents), {a \in Range(load(s, KEYS.agents)) : a.folder_id = folderId})

getAllAgents(s) == load(s, KEYS.agents)

addAgent(s, agent) == save(s, KEYS.agents, Append(load(s, KEYS.agents), agent))

\* removeAgent taking the messages of the agent away with it.
removeAgent_WithMessages(s, id) ==
  LET s1 == save(s, KEYS.agents,
                 Filter(load(s, KEYS.agents), {a \in Range(load(s, KEYS.agents)) : a.id # id}))
      s2 == save(s1, KEYS.roomAgents,
                 Filter(load(s1, KEYS.roomAgents),
                        {ra \in Range(load(s1, KEYS.roomAgents)) : ra.agent_id # id}))
  IN save(s2, KEYS.messages,
          Filter(load(s2, KEYS.messages),
                 {m \in Range(load(s2, KEYS.messages)) : m.agent_id # id}))

removeAgent(s, id) ==
  LET s1 == save(s, KEYS.agents,
                 Filter(load(s, KEYS.agents), {a \in Range(load(s, KEYS.agents)) : a.id # id}))
  IN save(s1, KEYS.roomAgents,
          Filter(load(s1, KEYS.roomAgents),
                 {ra \in Range(load(s1, KEYS.roomAgents)) : ra.agent_id # id}))

updateAgentFolder(s, agentId, newFolderId) ==
  LET agents0 == load(s, KEYS.agents)
      hits == {i \in 1..Len(agents0) : agents0[i].id = agentId}
  IN IF hits # {}
     THEN LET idx == CHOOSE i \in hits : \A j \in hits : i <= j
          IN save(s, KEYS.agents, [agents0 EXCEPT ![idx].folder_id = newFolderId])
     ELSE s

\* getMessages without the sort.
getMessages_Unsorted(s, roomId) ==
  Filter(load(s, KEYS.messages), {m \in Range(load(s, KEYS.messages)) : m.room_id = roomId})

getMessages(s, roomId) ==
  LET ms == Filter(load(s, KEYS.messages),
                   {m \in Range(load(s, KEYS.messages)) : m.room_id = roomId})
  IN StableSort([i \in 1..Len(ms) |-> << ms[i].timestamp, ms[i] >>])

addMessage(s, message) == save(s, KEYS.messages, Append(load(s, KEYS.messages), message))

\* ------------------------------------------------------------------ strings
\* The characters of the strings the model uses.
Chars(str) ==
  CASE str = "Acme" -> <<"A", "c", "m", "e">>
    [] str = "Dept" -> <<"D", "e", "p", "t">>
    [] str = "Workspace Assistant" -> <<"W", "o", "r", "k", "s", "p", "a", "c", "e", " ", "A", "s", "s", "i", "s", "t", "a", "n", "t">>
    [] str = "Dept Assistant" -> <<"D", "e", "p", "t", " ", "A", "s", "s", "i", "s", "t", "a", "n", "t">>
    [] str = "Alex" -> <<"A", "l", "e", "x">>
    [] str = "Company Chat" -> <<"C", "o", "m", "p", "a", "n", "y", " ", "C", "h", "a", "t">>
    [] str = "Department Meeting" -> <<"D", "e", "p", "a", "r", "t", "m", "e", "n", "t", " ", "M", "e", "e", "t", "i", "n", "g">>
    [] str = "Department Chat" -> <<"D", "e", "p", "a", "r", "t", "m", "e", "n", "t", " ", "C", "h", "a", "t">>
    [] str = "Sync" -> <<"S", "y", "n", "c">>
    [] str = "what's next" -> <<"w", "h", "a", "t", "'", "s", " ", "n", "e", "x", "t">>
    [] str = "hey @bob" -> <<"h", "e", "y", " ", "@", "b", "o", "b">>
    [] str = "hey @alex can you help" -> <<"h", "e", "y", " ", "@", "a", "l", "e", "x", " ", "c", "a", "n", " ", "y", "o", "u", " ", "h", "e", "l", "p">>
    [] str = " " -> <<" ">>
    [] str = "reply" -> <<"r", "e", "p", "l", "y">>
    [] str = "" -> <<>>

Upper == <<"A", "B", "C", "D", "E", "F", "G", "H", "I", "J", "K", "L", "M",
           "N", "O", "P", "Q", "R", "S", "T", "U", "V", "W", "X", "Y", "Z">>
Lower == <<"a", "b", "c", "d", "e", "f", "g", "h", "i", "j", "k", "l", "m",
           "n", "o", "p", "q", "r", "s", "t", "u", "v", "w", "x", "y", "z">>
Digits == {"0", "1", "2", "3", "4", "5", "6", "7", "8", "9"}

\* \w of a regular expression
WordChars == Range(Upper) \cup Range(Lower) \cup Digits \cup {"_"}

\* String.prototype.toLowerCase
toLowerCase(cs) ==
  [i \in 1..Len(cs) |->
     IF cs[i] \in Range(Upper) THEN Lower[CHOOSE k \in 1..Len(Upper) : Upper[k] = cs[i]]
     ELSE cs[i]]

\* String.prototype.includes
includes(hay, needle) ==
  \E o \in 0..(Len(hay) - Len(needle)) :
    \A k \in 1..Len(needle) : hay[o + k] = needle[k]

\* !content.trim()
IsBlank(str) == \A c \in Range(Chars(str)) : c = " "

\* currentInput.match(/@(\w+)/): the word after the first "@" that a word
\* character follows, or <<>> when there is none.
mentionMatch(str) ==
  LET cs == Chars(str)
      starts == {i \in 1..(Len(cs) - 1) : cs[i] = "@" /\ cs[i + 1] \in WordChars}
  IN IF starts = {} THEN <<>>
     ELSE LET i == CHOOSE x \in starts : \A y \in starts : x <= y
              ends == {j \in (i + 1)..Len(cs) : \A k \in (i + 1)..j : cs[k] \in WordChars}
              j == CHOOSE x \in ends : \A y \in ends : y <= x
          IN SubSeq(cs, i + 1, j)

\* ------------------------------------------------------------------ data-export.ts: archive
\* A zip archive: its manifest.json and the text of each file under data/.
\* A file that is not in the archive is NoItem.
FileName(key) ==
  CASE key = "agentic_folders" -> "data/folders.json"
    [] key = "agentic_agents" -> "data/agents.json"
    [] key = "agentic_rooms" -> "data/rooms.json"
    [] key = "agentic_room_agents" -> "data/room_agents.json"
    [] key = "agentic_messages" -> "data/messages.json"
    [] key = "agentic_ai_settings" -> "data/ai_settings.json"

FileNames == {FileName(k) : k \in AllKeys}

\* manifest.json: absent, not JSON, or an object whose version is a number
\* (NULL when the object has no version).
Manifest(present, parses, version) ==
  [present |-> present, parses |-> parses, version |-> version]

ManifestLabel(m) ==
  IF ~m.present THEN "missing"
  ELSE IF ~m.parses THEN "unparseable"
  ELSE IF m.version = 1 THEN "v1"
  ELSE IF m.version = NULL THEN "noversion"
  ELSE "v2"

exportAllData(s) ==
  [manifest |-> Manifest(TRUE, TRUE, 1),
   files |-> [f \in FileNames |->
                LET key == CHOOSE k \in AllKeys : FileName(k) = f
                    raw == s[key]
                IN IF Truthy(raw) THEN raw ELSE ArrayText(<<>>)]]

\* The restore loop merging instead of replacing: a key that holds an item keeps it.
RECURSIVE Restore_KeepExisting(_, _, _, _)
Restore_KeepExisting(s, zip, i, restoredCount) ==
  IF i > Len(DATA_KEYS) THEN [ls |-> s, count |-> restoredCount]
  ELSE LET key == DATA_KEYS[i]
           dataFile == zip.files[FileName(key)]
       IN IF dataFile # NoItem
          THEN Restore_KeepExisting(IF s[key] = NoItem THEN [s EXCEPT ![key] = dataFile] ELSE s,
                                    zip, i + 1, restoredCount + 1)
          ELSE Restore_KeepExisting(s, zip, i + 1, restoredCount)

\* The restore loop of importAllData, from the i-th key on.
RECURSIVE Restore(_, _, _, _)
Restore(s, zip, i, restoredCount) ==
  IF i > Len(DATA_KEYS) THEN [ls |-> s, count |-> restoredCount]
  ELSE LET key == DATA_KEYS[i]
           dataFile == zip.files[FileName(key)]
       IN IF dataFile # NoItem
          THEN Restore([s EXCEPT ![key] = dataFile], zip, i + 1, restoredCount + 1)
          ELSE Restore(s, zip, i + 1, restoredCount)

Rejected == 0 - 1

importAllData_NoVersionCheck(s, zip) ==
  IF ~zip.manifest.present THEN [ls |-> s, count |-> Rejected]
  ELSE IF ~zip.manifest.parses THEN [ls |-> s, count |-> Rejected]
  ELSE Restore(s, zip, 1, 0)

importAllData_SkipFirstKey(s, zip) ==
  IF ~zip.manifest.present THEN [ls |-> s, count |-> Rejected]
  ELSE IF ~zip.manifest.parses THEN [ls |-> s, count |-> Rejected]
  ELSE IF zip.manifest.version # 1 THEN [ls |-> s, count |-> Rejected]
  ELSE Restore(s, zip, 2, 0)

\* importAllData reporting the number of expected keys, not of restored files.
importAllData_CountKeys(s, zip) ==
  IF ~zip.manifest.present THEN [ls |-> s, count |-> Rejected]
  ELSE IF ~zip.manifest.parses THEN [ls |-> s, count |-> Rejected]
  ELSE IF zip.manifest.version # 1 THEN [ls |-> s, count |-> Rejected]
  ELSE [ls |-> Restore(s, zip, 1, 0).ls, count |-> Len(DATA_KEYS)]

\* The result of importAllData: the store after it, and the number of restored
\* files (Rejected when it throws).
importAllData(s, zip) ==
  IF ~zip.manifest.present THEN [ls |-> s, count |-> Rejected]
  ELSE IF ~zip.manifest.parses THEN [ls |-> s, count |-> Rejected]
  ELSE IF zip.manifest.version # 1 THEN [ls |-> s, count |-> Rejected]
  ELSE Restore(s, zip, 1, 0)

\* getAISettings: the value JSON.parse gives for the item when there is one and
\* it parses (an object, or whatever else the text denotes), the default
\* settings otherwise.
DefaultSettings == ObjectText("gemini")

getAISettings(s) ==
  LET data == s[AI_SETTINGS_KEY]
  IN IF Truthy(data) /\ data.kind # "corrupt" THEN data ELSE DefaultSettings

saveAISettings(s, settings) == [s EXCEPT ![AI_SETTINGS_KEY] = ObjectText(settings)]

\* ------------------------------------------------------------------ the store's interface
\* The record store called directly, as a client of storage.ts may call it:
\* records carry fresh ids, every other argument is arbitrary.
FolderIds == {FolderId(n) : n \in 1..nF}
RoomIds == {RoomId(n) : n \in 1..nR}
AgentIds == {AgentId(n) : n \in 1..nA}

\* The number of records held in the five collections.
StoreSize(s) ==
  Len(load(s, KEYS.folders)) + Len(load(s, KEYS.rooms)) + Len(load(s, KEYS.agents))
    + Len(load(s, KEYS.roomAgents)) + Len(load(s, KEYS.messages))

IdLists(S) == {<<>>} \cup {<<x>> : x \in S} \cup {<<x, y>> : x \in S, y \in S}

StoreAddFolder ==
  /\ nF < StoreFolders
  /\ \E p \in {NULL} \cup FolderIds :
       ls' = addFolder(ls, [id |-> FolderId(nF + 1), name |-> "Acme", parent_id |-> p,
                            created_at |-> 0])
  /\ nF' = nF + 1
  /\ last' = Op("addFolder", NULL, NULL, "")
  /\ UNCHANGED << nR, nA, nM, clock, appVars, archiveVars, auxVars >>

StoreRemoveFolder ==
  /\ \E id \in FolderIds :
       /\ ls' = removeFolder(ls, id)
       /\ last' = Op("removeFolder", id, StoreSize(ls) - StoreSize(removeFolder(ls, id)), "")
  /\ UNCHANGED << nF, nR, nA, nM, clock, appVars, archiveVars, auxVars >>

StoreAddRoom ==
  /\ nR < StoreRooms
  /\ \E f \in FolderIds, ids \in IdLists(AgentIds) :
       /\ Len(load(ls, KEYS.roomAgents)) + Len(ids) <= StoreLinks
       /\ ls' = addRoom(ls, [id |-> RoomId(nR + 1), folder_id |-> f, name |-> "Room",
                             type |-> "meeting", created_at |-> 0], ids)
  /\ nR' = nR + 1
  /\ last' = Op("addRoom", NULL, NULL, "")
  /\ UNCHANGED << nF, nA, nM, clock, appVars, archiveVars, auxVars >>

StoreAddRoomAgent ==
  /\ \E r \in RoomIds, a \in AgentIds :
       /\ Len(load(addRoomAgent(ls, r, a), KEYS.roomAgents)) <= StoreLinks
       /\ ls' = addRoomAgent(ls, r, a)
       /\ last' = Op(IF last.op \in {"addRoomAgent", "addRoomAgent2"} /\ last.a = r /\ last.b = a
                     THEN "addRoomAgent2" ELSE "addRoomAgent", r, a, "")
  /\ UNCHANGED << nF, nR, nA, nM, clock, appVars, archiveVars, auxVars >>

StoreAddAgent ==
  /\ nA < StoreAgents
  /\ \E f \in FolderIds :
       ls' = addAgent(ls, [id |-> AgentId(nA + 1), folder_id |-> f, name |-> "Alex",
                           is_assistant |-> FALSE])
  /\ nA' = nA + 1
  /\ last' = Op("addAgent", NULL, NULL, "")
  /\ UNCHANGED << nF, nR, nM, clock, appVars, archiveVars, auxVars >>

StoreRemoveAgent ==
  /\ \E id \in AgentIds :
       /\ ls' = removeAgent(ls, id)
       /\ last' = Op("removeAgent", id, StoreSize(ls) - StoreSize(removeAgent(ls, id)), "")
  /\ UNCHANGED << nF, nR, nA, nM, clock, appVars, archiveVars, auxVars >>

StoreAddMessage ==
  /\ nM < StoreMsgs
  /\ \E r \in RoomIds, a \in {NULL} \cup AgentIds :
       ls' = addMessage(ls, [id |-> MsgId(nM + 1), room_id |-> r, agent_id |-> a,
                             role |-> IF a = NULL THEN "user" ELSE "model",
                             content |-> "hi", timestamp |-> 0])
  /\ nM' = nM + 1
  /\ last' = Op("addMessage", NULL, NULL, "")
  /\ UNCHANGED << nF, nR, nA, clock, appVars, archiveVars, auxVars >>

Init ==
  /\ ls = EmptyStore
  /\ nF = 0 /\ nR = 0 /\ nA = 0 /\ nM = 0
  /\ clock = 0
  /\ activeFolder = NoFolder
  /\ activeRoom = NoRoom
  /\ agents = <<>>
  /\ roomAgents = <<>>
  /\ messages = <<>>
  /\ isLoading = FALSE
  /\ turns = <<>>
  /\ nT = 0
  /\ turnLog = NoTurn
  /\ download = <<>>
  /\ exported = <<>>
  /\ result = <<>>
  /\ idb = EmptyDB
  /\ fileCalls = <<>>
  /\ last = Op("init", NULL, NULL, "")

\* ------------------------------------------------------------------ export and import
NoFiles == [f \in FileNames |-> NoItem]

Manifests ==
  {Manifest(TRUE, TRUE, 1), Manifest(TRUE, TRUE, 2), Manifest(TRUE, TRUE, NULL),
   Manifest(TRUE, FALSE, NULL), Manifest(FALSE, FALSE, NULL)}

DropSets == {{}, {FileName(KEYS.folders)}, FileNames}

\* The files a user may hand to importAllData: the last download, as it is or
\* with its manifest replaced or some of its files removed, and hand-made
\* archives whose folders file is not the JSON text of an array.
Tampered(z) ==
  {[manifest |-> m, files |-> [f \in FileNames |-> IF f \in D THEN NoItem ELSE z.files[f]]] :
     m \in Manifests, D \in DropSets}

HandMade ==
  {[manifest |-> Manifest(TRUE, TRUE, 1),
    files |-> [NoFiles EXCEPT ![FileName(KEYS.folders)] = p]] : p \in {CorruptText, EmptyText}}

ImportFiles == HandMade \cup (IF download = <<>> THEN {} ELSE Tampered(download[1]))

\* The number of files of zip whose text differs from the stored item of their key.
DiffCount(s, zip) == Cardinality({k \in AllKeys : zip.files[FileName(k)] \notin {NoItem, s[k]}})

ExportAllData ==
  /\ download' = << exportAllData(ls) >>
  /\ exported' = << ls >>
  /\ last' = Op("exportAllData", NULL, NULL, "")
  /\ UNCHANGED << storeVars, clock, appVars, auxVars >>

\* handleImport: importAllData(file), then loadFolders and setActiveFolder(null).
ImportAllData ==
  /\ \E file \in ImportFiles :
       /\ ls' = importAllData(ls, file).ls
       /\ last' = Op(IF download # <<>> /\ file = download[1] /\ ls = EmptyStore
                     THEN "importAllData into empty" ELSE "importAllData",
                     importAllData(ls, file).count, DiffCount(ls, file),
                     ManifestLabel(file.manifest))
  /\ UNCHANGED << nF, nR, nA, nM, clock, appVars, archiveVars, auxVars >>

SaveAISettings ==
  /\ ls' = saveAISettings(ls, "custom")
  /\ last' = Op("saveAISettings", NULL, NULL, "")
  /\ UNCHANGED << nF, nR, nA, nM, clock, appVars, archiveVars, auxVars >>

\* The application opened on a profile whose localStorage was never written.
FreshProfile ==
  /\ download # <<>>
  /\ ls' = EmptyStore
  /\ last' = Op("freshProfile", NULL, NULL, "")
  /\ UNCHANGED << nF, nR, nA, nM, clock, appVars, archiveVars, auxVars >>

ArchiveAddFolder == nF + nR < ArchiveRecords /\ StoreAddFolder
ArchiveAddRoom == nF + nR < ArchiveRecords /\ StoreAddRoom

NextArchive ==
  \/ ArchiveAddFolder
  \/ ArchiveAddRoom
  \/ SaveAISettings
  \/ ExportAllData
  \/ FreshProfile
  \/ ImportAllData

SpecArchive == Init /\ [][NextArchive]_vars

\* ------------------------------------------------------------------ data-export.ts: App
getAgentById(s, id) ==
  LET hits == {i \in 1..Len(load(s, KEYS.agents)) : load(s, KEYS.agents)[i].id = id}
  IN IF hits = {} THEN <<>>
     ELSE << load(s, KEYS.agents)[CHOOSE i \in hits : \A j \in hits : i <= j] >>

\* The folders shown: loadFolders runs after every handler that writes the folders key.
folders == getFolders(ls)

\* The rooms shown: loadRooms runs whenever the active folder or its rooms change.
rooms == IF activeFolder = NoFolder THEN <<>> ELSE getRooms(ls, activeFolder.id)

loadRoomAgents(s, roomId) ==
  LET agentIds == Range(getRoomAgentIds(s, roomId))
  IN Filter(getAllAgents(s), {a \in Range(getAllAgents(s)) : a.id \in agentIds})

\* What createFolder writes to the store.
createFolderStore_NoLink(s, name, now, id, roomId, assistantId) ==
  LET s1 == addFolder(s, [id |-> id, name |-> name, parent_id |-> NULL, created_at |-> now])
      s2 == addRoom(s1, [id |-> roomId, folder_id |-> id, name |-> "Company Chat",
                         type |-> "company", created_at |-> now], <<>>)
  IN addAgent(s2, [id |-> assistantId, folder_id |-> id, name |-> "Workspace Assistant",
                   is_assistant |-> TRUE])

createFolderStore(s, name, now, id, roomId, assistantId) ==
  LET s1 == addFolder(s, [id |-> id, name |-> name, parent_id |-> NULL, created_at |-> now])
      s2 == addRoom(s1, [id |-> roomId, folder_id |-> id, name |-> "Company Chat",
                         type |-> "company", created_at |-> now], <<>>)
      s3 == addAgent(s2, [id |-> assistantId, folder_id |-> id, name |-> "Workspace Assistant",
                          is_assistant |-> TRUE])
  IN addRoomAgent(s3, roomId, assistantId)

\* upgradeToDepartment with the upgraded agent linked to the company room too.
upgradeToDepartmentStore_LinkBoth(s, agent, folderName, now, newFolderId, roomId, companyRoomId, assistantId) ==
  LET s1 == addFolder(s, [id |-> newFolderId, name |-> folderName,
                          parent_id |-> agent.folder_id, created_at |-> now])
      s2 == updateAgentFolder(s1, agent.id, newFolderId)
      s3 == addRoom(s2, [id |-> roomId, folder_id |-> newFolderId,
                         name |-> "Department Meeting", type |-> "meeting",
                         created_at |-> now], << agent.id >>)
      s4 == addRoom(s3, [id |-> companyRoomId, folder_id |-> newFolderId,
                         name |-> "Department Chat", type |-> "company",
                         created_at |-> now], << agent.id >>)
      s5 == addAgent(s4, [id |-> assistantId, folder_id |-> newFolderId,
                          name |-> "Dept Assistant", is_assistant |-> TRUE])
      s6 == addRoomAgent(s5, roomId, assistantId)
  IN addRoomAgent(s6, companyRoomId, assistantId)

\* What upgradeToDepartment writes to the store, for an agent that exists.
upgradeToDepartmentStore(s, agent, folderName, now, newFolderId, roomId, companyRoomId, assistantId) ==
  LET s1 == addFolder(s, [id |-> newFolderId, name |-> folderName,
                          parent_id |-> agent.folder_id, created_at |-> now])
      s2 == updateAgentFolder(s1, agent.id, newFolderId)
      s3 == addRoom(s2, [id |-> roomId, folder_id |-> newFolderId,
                         name |-> "Department Meeting", type |-> "meeting",
                         created_at |-> now], << agent.id >>)
      s4 == addRoom(s3, [id |-> companyRoomId, folder_id |-> newFolderId,
                         name |-> "Department Chat", type |-> "company",
                         created_at |-> now], <<>>)
      s5 == addAgent(s4, [id |-> assistantId, folder_id |-> newFolderId,
                          name |-> "Dept Assistant", is_assistant |-> TRUE])
      s6 == addRoomAgent(s5, roomId, assistantId)
  IN addRoomAgent(s6, companyRoomId, assistantId)

\* createRoom: the participants of the new room.
finalAgentIds(type, agentIds, agentList) ==
  LET assistants == {i \in 1..Len(agentList) : agentList[i].is_assistant}
  IN IF type = "meeting" /\ assistants # {}
     THEN LET assistant == agentList[CHOOSE i \in assistants : \A j \in assistants : i <= j]
          IN IF assistant.id \in Range(agentIds) THEN agentIds
             ELSE Append(agentIds, assistant.id)
     ELSE agentIds

\* sendMessage: the guard of its first line.
CanSend_NoBusyCheck(content) ==
  ~IsBlank(content) /\ activeFolder # NoFolder /\ activeRoom # NoRoom

CanSend(content) ==
  ~IsBlank(content) /\ activeFolder # NoFolder /\ activeRoom # NoRoom /\ ~isLoading

\* sendMessage answering a mention that matches nobody with the assistants only.
targetAgents_AssistantsOnNoMatch(room, currentInput, agentList, roomAgentList) ==
  IF room.type = "company"
  THEN LET mentionedName == toLowerCase(mentionMatch(currentInput))
           hits == {i \in 1..Len(agentList) :
                      includes(toLowerCase(Chars(agentList[i].name)), mentionedName)}
       IN IF mentionMatch(currentInput) # <<>> /\ hits # {}
          THEN << agentList[CHOOSE i \in hits : \A j \in hits : i <= j] >>
          ELSE Filter(roomAgentList, {a \in Range(roomAgentList) : a.is_assistant})
  ELSE roomAgentList

\* sendMessage: the agents that respond.
targetAgents(room, currentInput, agentList, roomAgentList) ==
  IF room.type = "company"
  THEN LET mentionedName == toLowerCase(mentionMatch(currentInput))
           hits == {i \in 1..Len(agentList) :
                      includes(toLowerCase(Chars(agentList[i].name)), mentionedName)}
       IN IF mentionMatch(currentInput) # <<>>
          THEN IF hits # {}
               THEN << agentList[CHOOSE i \in hits : \A j \in hits : i <= j] >>
               ELSE roomAgentList
          ELSE Filter(roomAgentList, {a \in Range(roomAgentList) : a.is_assistant})
  ELSE roomAgentList

\* Subsequences of a list, in list order (the checked boxes of the room form).
RECURSIVE SubLists(_)
SubLists(s) ==
  IF s = <<>> THEN {<<>>}
  ELSE LET rest == SubLists(Tail(s))
       IN rest \cup {<<Head(s)>> \o r : r \in rest}

FolderNames == {"Acme", " "}
AgentNames == {"Alex"}
Texts == {"what's next", "hey @alex can you help", " "}

\* Replies still to be stored by the turns in flight.
RECURSIVE PendingReplies(_)
PendingReplies(ts) ==
  IF ts = <<>> THEN 0
  ELSE Len(Head(ts).targets) - Head(ts).idx + 1 + PendingReplies(Tail(ts))

CreateFolder ==
  \E name \in FolderNames :
    IF IsBlank(name)
    THEN UNCHANGED vars
    ELSE /\ nF < MaxFolders /\ nR < MaxRooms /\ nA < MaxAgents
         /\ ls' = createFolderStore(ls, name, clock, FolderId(nF + 1), RoomId(nR + 1),
                                    AgentId(nA + 1))
         /\ nF' = nF + 1 /\ nR' = nR + 1 /\ nA' = nA + 1
         /\ activeFolder' = [id |-> FolderId(nF + 1), name |-> name, parent_id |-> NULL,
                             created_at |-> clock]
         /\ agents' = getAgents(ls', FolderId(nF + 1))
         /\ turnLog' = NoTurn
         /\ last' = Op("createFolder", FolderId(nF + 1), NULL, name)
         /\ UNCHANGED << nM, clock, activeRoom, roomAgents, messages, isLoading, turns,
                         nT, archiveVars, auxVars >>

\* A click on a folder of the sidebar: setActiveFolder and its effect.
SelectFolder ==
  /\ \E i \in 1..Len(folders) :
       /\ activeFolder' = folders[i]
       /\ agents' = getAgents(ls, folders[i].id)
       /\ turnLog' = NoTurn
       /\ last' = Op("selectFolder", NULL, NULL, "")
  /\ UNCHANGED << storeVars, clock, activeRoom, roomAgents, messages, isLoading, turns,
                  nT, archiveVars, auxVars >>

\* A click on a room of the active folder: setActiveRoom and its effect.
SelectRoom ==
  /\ \E i \in 1..Len(rooms) :
       /\ activeRoom' = rooms[i]
       /\ messages' = getMessages(ls, rooms[i].id)
       /\ roomAgents' = loadRoomAgents(ls, rooms[i].id)
       /\ turnLog' = NoTurn
       /\ last' = Op("selectRoom", NULL, NULL, "")
  /\ UNCHANGED << storeVars, clock, activeFolder, agents, isLoading, turns, nT,
                  archiveVars, auxVars >>

CreateAgent ==
  /\ activeFolder # NoFolder
  /\ nA < MaxAgents
  /\ \E name \in AgentNames :
       ls' = addAgent(ls, [id |-> AgentId(nA + 1), folder_id |-> activeFolder.id,
                           name |-> name, is_assistant |-> FALSE])
  /\ nA' = nA + 1
  /\ agents' = getAgents(ls', activeFolder.id)
  /\ turnLog' = NoTurn
  /\ last' = Op("createAgent", NULL, NULL, "")
  /\ UNCHANGED << nF, nR, nM, clock, activeFolder, activeRoom, roomAgents, messages,
                  isLoading, turns, nT, archiveVars, auxVars >>

\* The room form: createRoom(name, 'meeting', the checked agents).
CreateRoom ==
  /\ activeFolder # NoFolder
  /\ nR < MaxRooms
  /\ \E picked \in SubLists(agents) :
       ls' = addRoom(ls, [id |-> RoomId(nR + 1), folder_id |-> activeFolder.id,
                          name |-> "Sync", type |-> "meeting", created_at |-> clock],
                     finalAgentIds("meeting", [i \in 1..Len(picked) |-> picked[i].id], agents))
  /\ nR' = nR + 1
  /\ turnLog' = NoTurn
  /\ last' = Op("createRoom", NULL, NULL, "")
  /\ UNCHANGED << nF, nA, nM, clock, activeFolder, activeRoom, agents, roomAgents, messages, isLoading, turns, nT, archiveVars, auxVars >>

\* A click on an agent of the list: its direct room is selected, or created when
\* the active folder shows none of that name.
OpenDirectRoom ==
  /\ \E i \in 1..Len(agents) :
       LET agent == agents[i]
           existing == {j \in 1..Len(rooms) :
                          rooms[j].type = "direct" /\ rooms[j].name = agent.name}
       IN IF existing # {}
          THEN LET existingRoom == rooms[CHOOSE j \in existing : \A k \in existing : j <= k]
               IN /\ activeRoom' = existingRoom
                  /\ messages' = getMessages(ls, existingRoom.id)
                  /\ roomAgents' = loadRoomAgents(ls, existingRoom.id)
                  /\ UNCHANGED storeVars
          ELSE /\ activeFolder # NoFolder
               /\ nR < MaxRooms
               /\ ls' = addRoom(ls, [id |-> RoomId(nR + 1), folder_id |-> activeFolder.id,
                                     name |-> agent.name, type |-> "direct",
                                     created_at |-> clock],
                                finalAgentIds("direct", << agent.id >>, agents))
               /\ nR' = nR + 1
               /\ UNCHANGED << nF, nA, nM, activeRoom, messages, roomAgents >>
  /\ turnLog' = NoTurn
  /\ last' = Op("openDirectRoom", NULL, NULL, "")
  /\ UNCHANGED << clock, activeFolder, agents, isLoading, turns, nT, archiveVars,
                  auxVars >>

DeleteAgent ==
  /\ \E i \in 1..Len(agents) :
       /\ ls' = removeAgent(ls, agents[i].id)
       /\ turnLog' = NoTurn
       /\ last' = Op("deleteAgent", NULL, NULL, "")
  /\ agents' = IF activeFolder # NoFolder THEN getAgents(ls', activeFolder.id) ELSE agents
  /\ UNCHANGED << nF, nR, nA, nM, clock, activeFolder, activeRoom, roomAgents, messages,
                  isLoading, turns, nT, archiveVars, auxVars >>

DeleteFolder ==
  /\ \E i \in 1..Len(folders) :
       /\ ls' = removeFolder(ls, folders[i].id)
       /\ turnLog' = NoTurn
       /\ last' = Op("deleteFolder", NULL, NULL, "")
       /\ IF activeFolder.id = folders[i].id
          THEN /\ activeFolder' = NoFolder
               /\ activeRoom' = NoRoom
               /\ agents' = <<>>
               /\ roomAgents' = <<>>
               /\ messages' = <<>>
          ELSE UNCHANGED << activeFolder, activeRoom, agents, roomAgents, messages >>
  /\ UNCHANGED << nF, nR, nA, nM, clock, isLoading, turns, nT, archiveVars, auxVars >>

\* The upgrade icon of an agent of the list, then the button of the modal.
UpgradeToDepartment ==
  /\ \E i \in 1..Len(agents) :
       LET found == getAgentById(ls, agents[i].id)
       IN IF found = <<>>
          THEN /\ last' = Op("upgradeToDepartment", agents[i].id, NULL, "Dept")
               /\ UNCHANGED << storeVars >>
          ELSE /\ nF < MaxFolders /\ nR + 2 <= MaxRooms /\ nA < MaxAgents
               /\ ls' = upgradeToDepartmentStore(ls, found[1], "Dept", clock, FolderId(nF + 1),
                                                 RoomId(nR + 1), RoomId(nR + 2), AgentId(nA + 1))
               /\ nF' = nF + 1 /\ nR' = nR + 2 /\ nA' = nA + 1
               /\ last' = Op("upgradeToDepartment", agents[i].id, FolderId(nF + 1), "Dept")
               /\ UNCHANGED nM
  /\ turnLog' = NoTurn
  /\ UNCHANGED << clock, activeFolder, activeRoom, agents, roomAgents, messages, isLoading, turns, nT,
                  archiveVars, auxVars >>

\* sendMessage: the history passed to generateAIResponse, one entry per message
\* of the messages state the invocation closed over, then the new user message.
contextMessages(msgs, userMessage) == [i \in 1..Len(msgs) |-> msgs[i].id] \o << userMessage.id >>

\* sendMessage up to its first await, with content of texts and at most maxMsgs
\* messages generated.
SendMessageOf(texts, maxMsgs) ==
  \E content \in texts :
    IF ~CanSend(content)
    THEN /\ last' = IF turns # <<>> THEN Op("sendMessage", NULL, NULL, "ignored") ELSE last
         /\ UNCHANGED << storeVars, clock, appVars, archiveVars, auxVars >>
    ELSE LET userMessage == [id |-> MsgId(nM + 1), room_id |-> activeRoom.id,
                             agent_id |-> NULL, role |-> "user", content |-> content,
                             timestamp |-> clock]
             targets == targetAgents(activeRoom, content, agents, roomAgents)
             log == [no |-> nT + 1, targets |-> [i \in 1..Len(targets) |-> targets[i].id],
                     called |-> IF targets = <<>> THEN 0 ELSE 1, failedAt |-> 0,
                     msgs |-> << userMessage.id >>]
         IN /\ nT < MaxTurns
            /\ nM + 1 + Len(targets) + PendingReplies(turns) <= maxMsgs
            /\ messages' = Append(messages, userMessage)
            /\ ls' = addMessage(ls, userMessage)
            /\ nM' = nM + 1
            /\ nT' = nT + 1
            /\ IF targets = <<>>
               THEN /\ turnLog' = log
                    /\ UNCHANGED << isLoading, turns >>
               ELSE /\ isLoading' = TRUE
                    /\ turns' = Append(turns, [room |-> activeRoom, targets |-> targets,
                                               idx |-> 1, log |-> log,
                                               messages |-> messages,
                                               userMessage |-> userMessage,
                                               context |-> contextMessages(messages, userMessage)])
                    /\ UNCHANGED turnLog
            /\ last' = Op("sendMessage", userMessage.id, nT + 1, content)
            /\ UNCHANGED << nF, nR, nA, clock, activeFolder, activeRoom, agents, roomAgents,
                            archiveVars, auxVars >>

SendMessage == SendMessageOf(Texts, MaxMsgs)

RemoveAt(s, i) == SubSeq(s, 1, i - 1) \o SubSeq(s, i + 1, Len(s))

\* generateAIResponse resolves and the next agent is called at once: the reply is
\* shown, its storage.addMessage is left out.
CompletionReturns_NoPersist ==
  \E i \in 1..Len(turns) :
    LET turn == turns[i]
        agent == turn.targets[turn.idx]
        aiMessage == [id |-> MsgId(nM + 1), room_id |-> turn.room.id, agent_id |-> agent.id,
                      role |-> "model", content |-> "reply", timestamp |-> clock]
        more == turn.idx < Len(turn.targets)
        log == [turn.log EXCEPT !.msgs = Append(@, aiMessage.id),
                                !.called = IF more THEN @ + 1 ELSE @]
    IN /\ messages' = Append(messages, aiMessage)
       /\ nM' = nM + 1
       /\ IF more
          THEN /\ turns' = [turns EXCEPT ![i].idx = @ + 1, ![i].log = log,
                                         ![i].context = contextMessages(turn.messages, turn.userMessage)]
               /\ UNCHANGED << isLoading, turnLog >>
          ELSE /\ turns' = RemoveAt(turns, i)
               /\ turnLog' = log
               /\ isLoading' = FALSE
       /\ last' = Op("completionReturns", NULL, NULL, "")
       /\ UNCHANGED << ls, nF, nR, nA, nT, clock, activeFolder, activeRoom, agents,
                       roomAgents, archiveVars, auxVars >>

\* generateAIResponse resolves and the reply is stored under the room that is
\* active by then.
CompletionReturns_CurrentRoom ==
  \E i \in 1..Len(turns) :
    LET turn == turns[i]
        agent == turn.targets[turn.idx]
        aiMessage == [id |-> MsgId(nM + 1), room_id |-> activeRoom.id, agent_id |-> agent.id,
                      role |-> "model", content |-> "reply", timestamp |-> clock]
        more == turn.idx < Len(turn.targets)
        log == [turn.log EXCEPT !.msgs = Append(@, aiMessage.id),
                                !.called = IF more THEN @ + 1 ELSE @]
    IN /\ messages' = Append(messages, aiMessage)
       /\ ls' = addMessage(ls, aiMessage)
       /\ nM' = nM + 1
       /\ IF more
          THEN /\ turns' = [turns EXCEPT ![i].idx = @ + 1, ![i].log = log,
                                         ![i].context = contextMessages(turn.messages, turn.userMessage)]
               /\ UNCHANGED << isLoading, turnLog >>
          ELSE /\ turns' = RemoveAt(turns, i)
               /\ turnLog' = log
               /\ isLoading' = FALSE
       /\ last' = Op("completionReturns", NULL, NULL, "")
       /\ UNCHANGED << nF, nR, nA, nT, clock, activeFolder, activeRoom, agents, roomAgents,
                       archiveVars, auxVars >>

\* generateAIResponse resolves: the reply is stored, then the next agent is
\* called or the turn ends.
CompletionReturns ==
  \E i \in 1..Len(turns) :
    LET turn == turns[i]
        agent == turn.targets[turn.idx]
        aiMessage == [id |-> MsgId(nM + 1), room_id |-> turn.room.id, agent_id |-> agent.id,
                      role |-> "model", content |-> "reply", timestamp |-> clock]
        more == turn.idx < Len(turn.targets)
        log == [turn.log EXCEPT !.msgs = Append(@, aiMessage.id),
                                !.called = IF more THEN @ + 1 ELSE @]
    IN /\ messages' = Append(messages, aiMessage)
       /\ ls' = addMessage(ls, aiMessage)
       /\ nM' = nM + 1
       /\ IF more
          THEN /\ turns' = [turns EXCEPT ![i].idx = @ + 1, ![i].log = log,
                                         ![i].context = contextMessages(turn.messages, turn.userMessage)]
               /\ UNCHANGED << isLoading, turnLog >>
          ELSE /\ turns' = RemoveAt(turns, i)
               /\ turnLog' = log
               /\ isLoading' = FALSE
       /\ last' = Op("completionReturns", NULL, NULL, "")
       /\ UNCHANGED << nF, nR, nA, nT, clock, activeFolder, activeRoom, agents, roomAgents,
                       archiveVars, auxVars >>

\* generateAIResponse rejects and there is no finally block: the flag stays set.
CompletionFails_NoFinally ==
  \E i \in 1..Len(turns) :
    LET turn == turns[i]
    IN /\ turnLog' = [turn.log EXCEPT !.failedAt = turn.idx]
       /\ turns' = RemoveAt(turns, i)
       /\ last' = Op("completionFails", NULL, NULL, "")
       /\ UNCHANGED << storeVars, clock, activeFolder, activeRoom, agents, roomAgents,
                       messages, isLoading, nT, archiveVars, auxVars >>

\* generateAIResponse rejects: catch logs the error, finally clears the flag.
CompletionFails ==
  \E i \in 1..Len(turns) :
    LET turn == turns[i]
    IN /\ turnLog' = [turn.log EXCEPT !.failedAt = turn.idx]
       /\ turns' = RemoveAt(turns, i)
       /\ isLoading' = FALSE
       /\ last' = Op("completionFails", NULL, NULL, "")
       /\ UNCHANGED << storeVars, clock, activeFolder, activeRoom, agents, roomAgents,
                       messages, nT, archiveVars, auxVars >>

\* The specification that runs turns: the handlers that create rooms act while
\* fewer than ChatRooms rooms were created, and rooms are company or meeting
\* rooms (sendMessage treats a direct room as it treats a meeting room).
ChatCreateFolder == CreateFolder /\ nR' <= ChatRooms
ChatCreateRoom == CreateRoom /\ nR' <= ChatRooms
ChatUpgradeToDepartment == UpgradeToDepartment /\ nR' <= ChatRooms

Next ==
  \/ ChatCreateFolder
  \/ SelectFolder
  \/ SelectRoom
  \/ CreateAgent
  \/ ChatCreateRoom
  \/ DeleteAgent
  \/ DeleteFolder
  \/ ChatUpgradeToDepartment
  \/ SendMessage
  \/ CompletionReturns
  \/ CompletionFails

Spec == Init /\ [][Next]_vars

NextOrg ==
  \/ CreateFolder
  \/ SelectFolder
  \/ SelectRoom
  \/ CreateAgent
  \/ CreateRoom
  \/ OpenDirectRoom
  \/ DeleteAgent
  \/ DeleteFolder
  \/ UpgradeToDepartment

SpecOrg == Init /\ [][NextOrg]_vars

NextStore ==
  \/ StoreAddFolder
  \/ StoreRemoveFolder
  \/ StoreAddRoom
  \/ StoreAddRoomAgent
  \/ StoreAddAgent
  \/ StoreRemoveAgent
  \/ StoreAddMessage

SpecStore == Init /\ [][NextStore]_vars

\* ------------------------------------------------------------------ turns in one folder
\* One folder with its company room and a meeting room; an agent may be linked
\* to a room through the store (storage.addRoomAgent, or an imported archive),
\* and a message may mention a name no agent bears.
TurnTexts == {"what's next", "hey @bob"}

TurnCreateFolder == CreateFolder /\ nF' <= TurnFolders /\ nR' <= TurnRooms
TurnCreateRoom == CreateRoom /\ nR' <= TurnRooms
TurnSendMessage == SendMessageOf(TurnTexts, TurnMsgs)

TurnLinkAgent ==
  /\ \E i \in 1..Len(rooms), j \in 1..Len(agents) :
       ls' = addRoomAgent(ls, rooms[i].id, agents[j].id)
  /\ last' = Op("addRoomAgent", NULL, NULL, "")
  /\ UNCHANGED << nF, nR, nA, nM, clock, appVars, archiveVars, auxVars >>

NextTurns ==
  \/ TurnCreateFolder
  \/ CreateAgent
  \/ TurnCreateRoom
  \/ TurnLinkAgent
  \/ SelectRoom
  \/ TurnSendMessage
  \/ CompletionReturns
  \/ CompletionFails

SpecTurns == Init /\ [][NextTurns]_vars

\* Every completion call settles: the promise of generateAIResponse a turn awaits
\* resolves or rejects.
CompletionSettles == CompletionReturns \/ CompletionFails
SpecLive == Init /\ [][Next]_vars /\ WF_vars(CompletionSettles)

\* ------------------------------------------------------------------ the reads of the store
\* The record store read by a client: records are inserted with any created_at /
\* timestamp, in any order, and the item of a key may be lost or damaged outside
\* storage.ts (the key removed, the text emptied or cut short).
Times == 0..MaxTime
Inserted == nF + nR + nA + nM

InsertFolder ==
  /\ Inserted < ReadRecords
  /\ \E t \in Times :
       ls' = addFolder(ls, [id |-> FolderId(nF + 1), name |-> "Acme", parent_id |-> NULL,
                            created_at |-> t])
  /\ nF' = nF + 1
  /\ last' = Op("addFolder", NULL, NULL, "")
  /\ UNCHANGED << nR, nA, nM, clock, appVars, archiveVars, auxVars >>

InsertMessage ==
  /\ Inserted < ReadRecords
  /\ \E t \in Times, r \in {RoomId(1), RoomId(2)} :
       ls' = addMessage(ls, [id |-> MsgId(nM + 1), room_id |-> r, agent_id |-> NULL,
                             role |-> "user", content |-> "hi", timestamp |-> t])
  /\ nM' = nM + 1
  /\ last' = Op("addMessage", NULL, NULL, "")
  /\ UNCHANGED << nF, nR, nA, clock, appVars, archiveVars, auxVars >>

InsertAgent == Inserted < ReadRecords /\ nA < 1 /\ StoreAddAgent
InsertRoom == Inserted < ReadRecords /\ nR < 1 /\ StoreAddRoom

Damage ==
  /\ \E k \in CollectionKeys :
       \E raw \in {NoItem, EmptyText, CorruptText, TruncatedText(load(ls, k))} :
         /\ ls[k].kind = "array"
         /\ ls' = [ls EXCEPT ![k] = raw]
  /\ last' = Op("damage", NULL, NULL, "")
  /\ UNCHANGED << nF, nR, nA, nM, clock, appVars, archiveVars, auxVars >>

\* A read: its result, and the operation with its argument.
Read(op, arg, value) ==
  /\ result' = value
  /\ last' = Op(op, arg, NULL, "")
  /\ UNCHANGED << storeVars, clock, appVars, archiveVars, fileVars >>

GetFolders == Read("getFolders", NULL, getFolders(ls))
GetRooms == \E f \in {FolderId(1), FolderId(2)} : Read("getRooms", f, getRooms(ls, f))
GetRoomAgentIds == \E r \in {RoomId(1), RoomId(2)} : Read("getRoomAgentIds", r, getRoomAgentIds(ls, r))
GetAgents == \E f \in {FolderId(1), FolderId(2)} : Read("getAgents", f, getAgents(ls, f))
GetAllAgents == Read("getAllAgents", NULL, getAllAgents(ls))
GetAgentById == \E a \in {AgentId(1), AgentId(2)} : Read("getAgentById", a, getAgentById(ls, a))
GetMessages == \E r \in {RoomId(1), RoomId(2)} : Read("getMessages", r, getMessages(ls, r))

NextRead ==
  \/ InsertFolder
  \/ InsertMessage
  \/ InsertAgent
  \/ InsertRoom
  \/ Damage
  \/ GetFolders
  \/ GetRooms
  \/ GetRoomAgentIds
  \/ GetAgents
  \/ GetAllAgents
  \/ GetAgentById
  \/ GetMessages

SpecRead == Init /\ [][NextRead]_vars

\* ------------------------------------------------------------------ file-storage.ts
\* A call of file-storage.ts opens its transactions one after the other and awaits
\* each; IndexedDB commits a transaction as a whole or aborts it as a whole. Calls
\* run concurrently: between two transactions of one call those of another may
\* commit.
FileId(n) == 40 + n
FileIdsAll == {FileId(n) : n \in 1..MaxFiles}
FileFolders == {FolderId(1), FolderId(2)}

Put(store, id, folderId) == [store |-> store, kind |-> "put", id |-> id, folder_id |-> folderId]
Delete(store, id) == [store |-> store, kind |-> "delete", id |-> id, folder_id |-> NULL]

MetaIds(d) == {m.id : m \in d.file_meta}

\* One request of a transaction, applied to the stores.
ApplyRequest(d, rq) ==
  IF rq.store = STORE_META
    THEN [d EXCEPT !.file_meta =
            {m \in d.file_meta : m.id # rq.id}
              \cup (IF rq.kind = "put" THEN {[id |-> rq.id, folder_id |-> rq.folder_id]} ELSE {})]
    ELSE [d EXCEPT !.file_blobs =
            IF rq.kind = "put" THEN d.file_blobs \cup {rq.id} ELSE d.file_blobs \ {rq.id}]

RECURSIVE ApplyTx(_, _)
ApplyTx(d, tx) == IF tx = <<>> THEN d ELSE ApplyTx(ApplyRequest(d, Head(tx)), Tail(tx))

\* saveFile: the metadata in one transaction, then the blob in another.
saveFileTxs(folderId, id) == << << Put(STORE_META, id, folderId) >>, << Put(STORE_BLOBS, id, folderId) >> >>

\* importFile: both puts in one transaction over both stores.
importFileTxs(folderId, id) == << << Put(STORE_META, id, folderId), Put(STORE_BLOBS, id, folderId) >> >>

\* deleteFile deleting the metadata in one transaction and the blob in another.
deleteFileTxs_TwoTransactions(id) == << << Delete(STORE_META, id) >>, << Delete(STORE_BLOBS, id) >> >>

\* deleteFile: both deletes in one transaction over both stores.
deleteFileTxs(id) == << << Delete(STORE_META, id), Delete(STORE_BLOBS, id) >> >>

getFilesByFolder(d, folderId) == {m \in d.file_meta : m.folder_id = folderId}

RECURSIVE DeletesOf(_)
DeletesOf(ids) ==
  IF ids = {} THEN <<>>
  ELSE LET id == CHOOSE x \in ids : \A y \in ids : x <= y
       IN << Delete(STORE_META, id), Delete(STORE_BLOBS, id) >> \o DeletesOf(ids \ {id})

\* deleteFilesByFolder: the files read first, then one transaction with both
\* deletes of each.
deleteFilesByFolderTxs(d, folderId) == << DeletesOf({m.id : m \in getFilesByFolder(d, folderId)}) >>

\* Which halves of id the stores hold: 1 for the metadata, 2 for the blob.
Halves(d, id) == (IF id \in MetaIds(d) THEN 1 ELSE 0) + (IF id \in d.file_blobs THEN 2 ELSE 0)

Call(op, id, txs) == [op |-> op, id |-> id, txs |-> txs]

StartCall(c) ==
  /\ Len(fileCalls) < MaxCalls
  /\ fileCalls' = Append(fileCalls, c)
  /\ last' = Op(c.op, c.id, NULL, "called")
  /\ UNCHANGED << storeVars, clock, appVars, archiveVars, result, idb >>

SaveFile == \E f \in FileFolders, id \in FileIdsAll : StartCall(Call("saveFile", id, saveFileTxs(f, id)))
ImportFile == \E f \in FileFolders, id \in FileIdsAll : StartCall(Call("importFile", id, importFileTxs(f, id)))
DeleteFile == \E id \in FileIdsAll : StartCall(Call("deleteFile", id, deleteFileTxs(id)))
DeleteFilesByFolder ==
  \E f \in FileFolders : StartCall(Call("deleteFilesByFolder", f, deleteFilesByFolderTxs(idb, f)))

\* tx.oncomplete: the transaction a call awaits commits; the call opens its next
\* transaction, or resolves when that was its last.
TxCommits ==
  \E i \in 1..Len(fileCalls) :
    LET c == fileCalls[i]
    IN /\ idb' = ApplyTx(idb, Head(c.txs))
       /\ IF Len(c.txs) > 1
            THEN /\ fileCalls' = [fileCalls EXCEPT ![i].txs = Tail(c.txs)]
                 /\ last' = Op(c.op, c.id, Halves(idb, c.id), "committed")
            ELSE /\ fileCalls' = RemoveAt(fileCalls, i)
                 /\ last' = Op(c.op, c.id, Halves(idb, c.id), "resolved")
       /\ UNCHANGED << storeVars, clock, appVars, archiveVars, result >>

\* tx.onerror: the transaction a call awaits fails and is rolled back; the call
\* rejects and opens no further transaction.
TxAborts ==
  \E i \in 1..Len(fileCalls) :
    LET c == fileCalls[i]
    IN /\ fileCalls' = RemoveAt(fileCalls, i)
       /\ last' = Op(c.op, c.id, Halves(idb, c.id), "rejected")
       /\ UNCHANGED << storeVars, clock, appVars, archiveVars, result, idb >>

NextFiles ==
  \/ SaveFile
  \/ ImportFile
  \/ DeleteFile
  \/ DeleteFilesByFolder
  \/ TxCommits
  \/ TxAborts

SpecFiles == Init /\ [][NextFiles]_vars

\* ------------------------------------------------------------------ claims: the record store
Link(r, a) == [room_id |-> r, agent_id |-> a]

\* Every record of `keep` occurs in post as often as in pre, and post holds nothing else.
KeptExactly(pre, post, keep) ==
  /\ \A x \in keep : Count(post, x) = Count(pre, x)
  /\ Range(post) \subseteq keep

RemoveFolderPost(pre, post, id) ==
  LET roomsOfF == {r.id : r \in {x \in Range(load(pre, KEYS.rooms)) : x.folder_id = id}}
  IN /\ \A f \in Range(load(post, KEYS.folders)) : f.id # id
     /\ \A r \in Range(load(post, KEYS.rooms)) : r.folder_id # id
     /\ \A a \in Range(load(post, KEYS.agents)) : a.folder_id # id
     /\ \A ra \in Range(load(post, KEYS.roomAgents)) : ra.room_id \notin roomsOfF
     /\ \A m \in Range(load(post, KEYS.messages)) : m.room_id \notin roomsOfF
     /\ KeptExactly(load(pre, KEYS.folders), load(post, KEYS.folders),
                    {f \in Range(load(pre, KEYS.folders)) : f.id # id})
     /\ KeptExactly(load(pre, KEYS.rooms), load(post, KEYS.rooms),
                    {r \in Range(load(pre, KEYS.rooms)) : r.folder_id # id})
     /\ KeptExactly(load(pre, KEYS.agents), load(post, KEYS.agents),
                    {a \in Range(load(pre, KEYS.agents)) : a.folder_id # id})
     /\ KeptExactly(load(pre, KEYS.roomAgents), load(post, KEYS.roomAgents),
                    {ra \in Range(load(pre, KEYS.roomAgents)) : ra.room_id \notin roomsOfF})
     /\ KeptExactly(load(pre, KEYS.messages), load(post, KEYS.messages),
                    {m \in Range(load(pre, KEYS.messages)) : m.room_id \notin roomsOfF})

\* C1: after removeFolder(F.id) the store holds no folder F, no room and no agent
\* of F, no link and no message of a room of F, and every folder, room, agent,
\* link and message of another folder is still there, unchanged.
C1_RemoveFolderCascade ==
  [][last'.op = "removeFolder" => RemoveFolderPost(ls, ls', last'.a)]_vars

\* C1 witness: a removeFolder that took at least a folder, a room, an agent and a
\* link away and left a folder, a room, an agent and a link of another folder.
C1_Witness ==
  /\ last.op = "removeFolder"
  /\ last.b >= 4
  /\ load(ls, KEYS.folders) # <<>>
  /\ load(ls, KEYS.rooms) # <<>>
  /\ load(ls, KEYS.agents) # <<>>
  /\ load(ls, KEYS.roomAgents) # <<>>

\* C9 (as claimed): addRoomAgent(r, a) called twice in a row leaves exactly one
\* link (r, a), and the second call changes nothing.
C9_AddRoomAgentIdempotent ==
  [][last'.op = "addRoomAgent2"
       => /\ ls' = ls
          /\ Count(load(ls', KEYS.roomAgents), Link(last'.a, last'.b)) = 1]_vars

\* C10 (as claimed): the link collection never holds the same (room_id, agent_id)
\* pair twice.
C10_LinksUnique ==
  \A i, j \in 1..Len(load(ls, KEYS.roomAgents)) :
    i # j => load(ls, KEYS.roomAgents)[i] # load(ls, KEYS.roomAgents)[j]

\* ------------------------------------------------------------------ claims: the archive
ImportOps == {"importAllData", "importAllData into empty"}

C3_BadManifestRejected ==
  [][(last'.op \in ImportOps /\ last'.txt \in {"missing", "v2", "noversion"})
       => (last'.a = Rejected /\ ls' = ls)]_vars

\* C3 witness: an archive of version 2 was rejected although some of its files
\* differ from what the store holds.
C3_Witness ==
  /\ last.op \in ImportOps
  /\ last.txt = "v2"
  /\ last.a = Rejected
  /\ last.b > 0

\* ------------------------------------------------------------------ claims: the orchestrator
\* post is pre with one more occurrence of x, and nothing else changed.
AddedExactly(pre, post, x) ==
  /\ Len(post) = Len(pre) + 1
  /\ \A y \in Range(pre) \cup {x} : Count(post, y) = Count(pre, y) + (IF y = x THEN 1 ELSE 0)

CreateFolderPost(pre, post, fid, name) ==
  \E f \in Range(load(post, KEYS.folders)), r \in Range(load(post, KEYS.rooms)),
     a \in Range(load(post, KEYS.agents)) :
    /\ f.id = fid /\ f.name = name
    /\ r.name = "Company Chat" /\ r.type = "company" /\ r.folder_id = fid
    /\ a.is_assistant /\ a.folder_id = fid
    /\ AddedExactly(load(pre, KEYS.folders), load(post, KEYS.folders), f)
    /\ AddedExactly(load(pre, KEYS.rooms), load(post, KEYS.rooms), r)
    /\ AddedExactly(load(pre, KEYS.agents), load(post, KEYS.agents), a)
    /\ AddedExactly(load(pre, KEYS.roomAgents), load(post, KEYS.roomAgents), Link(r.id, a.id))
    /\ post[KEYS.messages] = pre[KEYS.messages]
    /\ post[AI_SETTINGS_KEY] = pre[AI_SETTINGS_KEY]

\* C6: createFolder with a non-blank name adds exactly one folder, one company
\* room "Company Chat" of it, one assistant of it and the link between the two,
\* and changes nothing else in the store.
C6_CreateFolderDefaults ==
  [][(last'.op = "createFolder" /\ ~IsBlank(last'.txt))
       => CreateFolderPost(ls, ls', last'.a, last'.txt)]_vars

\* C6 witness: a folder created in a store that already held another one.
C6_Witness ==
  /\ last.op = "createFolder"
  /\ ~IsBlank(last.txt)
  /\ Len(load(ls, KEYS.folders)) = 2

UpgradePost(pre, post, agentId, newFolderId, name) ==
  LET old == getAgentById(pre, agentId)[1]
      newRooms == {r \in Range(load(post, KEYS.rooms)) : r \notin Range(load(pre, KEYS.rooms))}
  IN \E f \in Range(load(post, KEYS.folders)), asst \in Range(load(post, KEYS.agents)),
        m \in newRooms, c \in newRooms :
       /\ f.id = newFolderId /\ f.name = name /\ f.parent_id = old.folder_id
       /\ AddedExactly(load(pre, KEYS.folders), load(post, KEYS.folders), f)
       /\ asst \notin Range(load(pre, KEYS.agents))
       /\ asst.id # agentId /\ asst.is_assistant /\ asst.folder_id = newFolderId
       /\ Len(load(post, KEYS.agents)) = Len(load(pre, KEYS.agents)) + 1
       /\ \A x \in Range(load(pre, KEYS.agents)) :
            x.id # agentId
              => Count(load(post, KEYS.agents), x) = Count(load(pre, KEYS.agents), x)
       /\ \A x \in Range(load(post, KEYS.agents)) :
            x.id = agentId => x = [old EXCEPT !.folder_id = newFolderId]
       /\ Count(load(post, KEYS.agents), [old EXCEPT !.folder_id = newFolderId]) = 1
       /\ Cardinality(newRooms) = 2
       /\ Len(load(post, KEYS.rooms)) = Len(load(pre, KEYS.rooms)) + 2
       /\ m.type = "meeting" /\ m.folder_id = newFolderId
       /\ c.type = "company" /\ c.folder_id = newFolderId
       /\ Range(getRoomAgentIds(post, m.id)) = {agentId, asst.id}
       /\ Len(getRoomAgentIds(post, m.id)) = 2
       /\ getRoomAgentIds(post, c.id) = << asst.id >>

\* C8: upgradeToDepartment(A, N) of an existing agent A of folder P adds a folder
\* N with parent_id = P, moves A (same id) into it, adds an assistant of it, a
\* meeting room linked to exactly A and that assistant, and a company room
\* linked to that assistant alone.
C8_UpgradeToDepartment ==
  [][(last'.op = "upgradeToDepartment" /\ getAgentById(ls, last'.a) # <<>>)
       => (last'.b # NULL /\ UpgradePost(ls, ls', last'.a, last'.b, last'.txt))]_vars

\* C8 witness: an upgrade that was carried out.
C8_Witness ==
  /\ last.op = "upgradeToDepartment"
  /\ last.b # NULL
  /\ \E a \in Range(load(ls, KEYS.agents)) : a.id = last.a /\ a.folder_id = last.b

\* C4 (as claimed): when the completion call of one agent of a turn fails, every
\* agent after it in the fan-out set is still called.
C4_FailureIsolated ==
  turnLog.failedAt > 0 => turnLog.called = Len(turnLog.targets)

\* The messages of a turn lie next to each other in the message log.
Contiguous(log, ids) ==
  \A i, j, k \in 1..Len(log) :
    (i < j /\ j < k /\ log[i].id \in ids /\ log[k].id \in ids) => log[j].id \in ids

TurnsContiguous ==
  /\ Contiguous(load(ls, KEYS.messages), Range(turnLog.msgs))
  /\ \A i \in 1..Len(turns) : Contiguous(load(ls, KEYS.messages), Range(turns[i].log.msgs))

\* C5: a sendMessage invoked while a turn is in flight stores no message and
\* starts no agent call; at most one turn is in flight, and the messages of two
\* turns are never interleaved in the log.
C5_BusyGate ==
  [][/\ Len(turns') <= 1
     /\ TurnsContiguous'
     /\ (last'.op = "sendMessage" /\ turns # <<>>)
          => (ls' = ls /\ turns' = turns /\ nT' = nT /\ last'.txt = "ignored")]_vars

\* C5 witness: a sendMessage was ignored while a turn was awaiting a completion.
C5_Witness ==
  /\ last.op = "sendMessage"
  /\ last.txt = "ignored"
  /\ isLoading
  /\ Len(turns) = 1

\* C7 (as claimed): in a company room a message whose first @name token is part
\* of the name of an agent of the folder is answered by exactly that agent, and
\* a message without @name token by exactly the linked assistants of the room.
C7_CompanyRouting ==
  (last.op = "sendMessage" /\ last.txt # "ignored" /\ activeRoom.type = "company")
    => LET rec == IF turns # <<>> /\ turns[Len(turns)].log.no = last.b
                  THEN turns[Len(turns)].log ELSE turnLog
           token == toLowerCase(mentionMatch(last.txt))
           matching == {a \in Range(load(ls, KEYS.agents)) :
                          /\ a.folder_id = activeFolder.id
                          /\ includes(toLowerCase(Chars(a.name)), token)}
           assistants == {a.id : a \in {x \in Range(load(ls, KEYS.agents)) :
                            /\ x.is_assistant
                            /\ Link(activeRoom.id, x.id) \in Range(load(ls, KEYS.roomAgents))}}
       IN /\ (mentionMatch(last.txt) # <<>> /\ matching # {})
               => (Len(rec.targets) = 1 /\ rec.targets[1] \in {a.id : a \in matching})
          /\ mentionMatch(last.txt) = <<>>
               => (Range(rec.targets) = assistants /\ Len(rec.targets) = Cardinality(assistants))

\* ------------------------------------------------------------------ claims: referential integrity
StoredFolderIds == {f.id : f \in Range(load(ls, KEYS.folders))}

\* C11: every room's folder_id and every agent's folder_id is the id of a folder
\* that is in the store.
C11_FolderIdsLive ==
  /\ \A r \in Range(load(ls, KEYS.rooms)) : r.folder_id \in StoredFolderIds
  /\ \A a \in Range(load(ls, KEYS.agents)) : a.folder_id \in StoredFolderIds

\* C11 witness: a folder was deleted, and the store still holds a department with
\* its rooms and agents.
C11_Witness ==
  /\ last.op = "deleteFolder"
  /\ Len(load(ls, KEYS.folders)) = 1
  /\ Len(load(ls, KEYS.rooms)) >= 2
  /\ Len(load(ls, KEYS.agents)) >= 2

\* ------------------------------------------------------------------ claims: meeting rooms
\* The assistants the store holds for a folder.
AssistantsOf(s, folderId) ==
  {a \in Range(load(s, KEYS.agents)) : a.folder_id = folderId /\ a.is_assistant}

\* Every meeting room of a folder that has an assistant is linked to an assistant
\* of that folder.
MeetingRoomsHaveAssistant ==
  \A r \in Range(load(ls, KEYS.rooms)) :
    (r.type = "meeting" /\ AssistantsOf(ls, r.folder_id) # {})
      => \E a \in AssistantsOf(ls, r.folder_id) :
           Link(r.id, a.id) \in Range(load(ls, KEYS.roomAgents))

\* C12 (as claimed): createRoom of a meeting room in a folder that has an
\* assistant links the new room to an assistant of the folder, once; and in every
\* state each meeting room of a folder that has an assistant is linked to an
\* assistant of that folder.
C12_MeetingHasAssistant ==
  [][/\ (last'.op = "createRoom" /\ AssistantsOf(ls, activeFolder.id) # {})
          => /\ \E a \in AssistantsOf(ls, activeFolder.id) :
                  Count(load(ls', KEYS.roomAgents), Link(RoomId(nR'), a.id)) = 1
             /\ \A a \in Range(load(ls', KEYS.agents)) :
                  Count(load(ls', KEYS.roomAgents), Link(RoomId(nR'), a.id)) <= 1
     /\ MeetingRoomsHaveAssistant']_vars

\* ------------------------------------------------------------------ claims: import
\* The files importAllData accepts.
ValidFiles == {z \in ImportFiles : ManifestLabel(z.manifest) = "v1"}

\* C13: importAllData of a valid archive sets every key that has a payload file
\* to that payload, whatever the key held, and leaves every other key as it was.
C13_ImportReplaces ==
  \A z \in ValidFiles : \A k \in AllKeys :
    importAllData(ls, z).ls[k]
      = IF z.files[FileName(k)] # NoItem THEN z.files[FileName(k)] ELSE ls[k]

\* C13 witness: an archive without folders file was imported: it replaced other
\* keys, and the folders the store held are still there.
C13_Witness ==
  /\ last.op \in ImportOps
  /\ last.txt = "v1"
  /\ last.a = 5
  /\ last.b > 0
  /\ load(ls, KEYS.folders) # <<>>

\* C14: the count a successful importAllData reports is the number of expected
\* keys whose payload file is in the archive, between 0 and 6, which is the
\* number of keys it wrote.
C14_ImportCount ==
  \A z \in ValidFiles :
    LET r == importAllData(ls, z)
        present == {k \in AllKeys : z.files[FileName(k)] # NoItem}
        written == {k \in present : r.ls[k] = z.files[FileName(k)]}
    IN /\ r.count = Cardinality(present)
       /\ r.count = Cardinality(written)
       /\ r.count \in 0..Len(DATA_KEYS)

\* C14 witness: a partial archive, of one payload file, was imported.
C14_Witness ==
  /\ last.op \in ImportOps
  /\ last.txt = "v1"
  /\ last.a = 1

\* ------------------------------------------------------------------ claims: the fan-out
\* post is pre with the one message m appended, and m is new.
Persisted(pre, post, m) ==
  /\ load(post, KEYS.messages) = Append(load(pre, KEYS.messages), m)
  /\ \A x \in Range(load(pre, KEYS.messages)) : x.id # m.id

LastMessage(s) == load(s, KEYS.messages)[Len(load(s, KEYS.messages))]

\* C15: the user message is stored when the turn starts; when the call of an
\* agent returns, its reply is stored as a new message with role model, the id of
\* that agent and the room of the turn, in the step in which the next agent of
\* the list is called; a turn has called as many agents as it has stored
\* messages, and no two calls are in flight at once.
C15_SequentialFanOut ==
  [][/\ last'.op = "completionReturns"
          => \E i \in 1..Len(turns) :
               /\ load(ls', KEYS.messages) # <<>>
               /\ Persisted(ls, ls', LastMessage(ls'))
               /\ LastMessage(ls').role = "model"
               /\ LastMessage(ls').agent_id = turns[i].targets[turns[i].idx].id
               /\ LastMessage(ls').room_id = turns[i].room.id
               /\ \/ /\ turns[i].idx = Len(turns[i].targets)
                     /\ Len(turns') = Len(turns) - 1
                  \/ /\ turns[i].idx < Len(turns[i].targets)
                     /\ turns'[i].targets = turns[i].targets
                     /\ turns'[i].idx = turns[i].idx + 1
     /\ (last'.op = "sendMessage" /\ last'.txt # "ignored")
          => /\ load(ls', KEYS.messages) # <<>>
             /\ Persisted(ls, ls', LastMessage(ls'))
             /\ LastMessage(ls').role = "user"
             /\ LastMessage(ls').id = last'.a
             /\ LastMessage(ls').room_id = activeRoom.id
     /\ \A i \in 1..Len(turns') :
          /\ turns'[i].idx = turns'[i].log.called
          /\ turns'[i].log.called = Len(turns'[i].log.msgs)
          /\ turns'[i].log.msgs[1] \in {MsgId(n) : n \in 1..nM'}
     /\ Len(turns') <= 1]_vars

\* C15 witness: a turn of two agents ended, the replies of both stored.
C15_Witness ==
  /\ last.op = "completionReturns"
  /\ turnLog.failedAt = 0
  /\ Len(turnLog.targets) = 2
  /\ Len(turnLog.msgs) = 3
  /\ \A i \in 1..3 : \E m \in Range(load(ls, KEYS.messages)) : m.id = turnLog.msgs[i]

\* C16 (as claimed): in a meeting or direct room the agents that respond to a
\* message are exactly the agents the store links to the room when the message
\* is sent, whatever its text.
C16_MeetingRouting ==
  (last.op = "sendMessage" /\ last.txt # "ignored" /\ activeRoom.type \in {"meeting", "direct"})
    => LET rec == IF turns # <<>> /\ turns[Len(turns)].log.no = last.b
                  THEN turns[Len(turns)].log ELSE turnLog
           linked == {a.id : a \in {x \in Range(load(ls, KEYS.agents)) :
                        Link(activeRoom.id, x.id) \in Range(load(ls, KEYS.roomAgents))}}
       IN Range(rec.targets) = linked

\* ------------------------------------------------------------------ claims: the reads
\* a and b hold the same records, each as often.
SameRecords(a, b) ==
  /\ Len(a) = Len(b)
  /\ \A x \in Range(a) \cup Range(b) : Count(a, x) = Count(b, x)

\* C17: getMessages(roomId) returns exactly the stored messages of that room,
\* by ascending timestamp, in whatever order they were inserted.
C17_MessagesAscending ==
  last.op = "getMessages"
    => /\ SameRecords(result, SelectSeq(load(ls, KEYS.messages), LAMBDA m : m.room_id = last.a))
       /\ \A i, j \in 1..Len(result) : i < j => result[i].timestamp <= result[j].timestamp

\* C17 witness: a read of a room whose messages were inserted latest first,
\* beside a message of another room.
C17_Witness ==
  /\ last.op = "getMessages"
  /\ Len(result) = 2
  /\ Len(load(ls, KEYS.messages)) = 3
  /\ result[1].timestamp < result[2].timestamp
  /\ result[1].id > result[2].id

\* C18: getFolders() returns exactly the stored folders, by descending
\* created_at, in whatever order they were inserted.
C18_FoldersDescending ==
  last.op = "getFolders"
    => /\ SameRecords(result, load(ls, KEYS.folders))
       /\ \A i, j \in 1..Len(result) : i < j => result[i].created_at >= result[j].created_at

\* C18 witness: a read of three folders that were not inserted newest first.
C18_Witness ==
  /\ last.op = "getFolders"
  /\ Len(result) = 3
  /\ result # load(ls, KEYS.folders)
  /\ result[1].created_at > result[3].created_at

\* The key each read loads.
KeyOf(op) ==
  CASE op = "getFolders" -> KEYS.folders
    [] op = "getRooms" -> KEYS.rooms
    [] op = "getRoomAgentIds" -> KEYS.roomAgents
    [] op \in {"getAgents", "getAllAgents", "getAgentById"} -> KEYS.agents
    [] op = "getMessages" -> KEYS.messages

ReadOps ==
  {"getFolders", "getRooms", "getRoomAgentIds", "getAgents", "getAllAgents", "getAgentById",
   "getMessages"}

\* C19: a read whose key holds no item, or a text that does not parse, returns
\* the empty result.
C19_ReadsTolerateDamage ==
  (last.op \in ReadOps /\ ls[KeyOf(last.op)].kind \in {"null", "empty", "corrupt"})
    => result = <<>>

\* C19 witness: a read returned nothing from a key whose text, which held
\* records, was cut short.
C19_Witness ==
  /\ last.op \in ReadOps
  /\ ls[KeyOf(last.op)].kind = "corrupt"
  /\ ls[KeyOf(last.op)].arr # <<>>
  /\ result = <<>>

\* ------------------------------------------------------------------ claims: the files
\* C20: deleteFile(id) removes the metadata and the blob of id in one step: when
\* it resolves both are gone, whichever of them were there; when its transaction
\* fails both are as before; and no step takes one of them away while the other
\* stays.
C20_DeleteFileAtomic ==
  [][\A id \in FileIdsAll :
       /\ (last'.op = "deleteFile" /\ last'.a = id /\ last'.txt = "resolved")
            => Halves(idb', id) = 0
       /\ (last'.op = "deleteFile" /\ last'.a = id /\ last'.txt = "rejected")
            => idb' = idb
       /\ (Halves(idb', id) # Halves(idb, id) /\ Halves(idb', id) < Halves(idb, id))
            => Halves(idb', id) = 0]_vars

\* C20 witness: deleteFile resolved for a file whose metadata was stored and
\* whose blob was not.
C20_Witness ==
  /\ last.op = "deleteFile"
  /\ last.txt = "resolved"
  /\ last.b = 1
  /\ Halves(idb, last.a) = 0
  /\ idb # EmptyDB

\* C21: whenever no saveFile is in progress, the metadata store holds a record
\* of an id if and only if the blob store holds one, with write failures allowed.
C21_NoPartialFile ==
  (\A i \in 1..Len(fileCalls) : fileCalls[i].op # "saveFile")
    => \A id \in FileIdsAll : Halves(idb, id) \in {0, 3}

\* ------------------------------------------------------------------ claims: the turns
\* The messages of a room the store held before a message was added.
HistoryBefore(s, roomId, message) ==
  SelectSeq(getMessages(s, roomId), LAMBDA m : m.id < message.id)

\* C22: the history every agent of a turn is called with is the messages of the
\* room as they were before the turn, followed by the new user message; no
\* reply of the turn is part of it.
C22_FixedSnapshotContext ==
  \A i \in 1..Len(turns) :
    turns[i].context
      = contextMessages(HistoryBefore(ls, turns[i].room.id, turns[i].userMessage),
                        turns[i].userMessage)

\* The agents a turn was sent to: of the turn in flight, or of the turn that
\* ended at once for want of a responder.
TargetsOfTurn(no, ts, ended) ==
  IF ended.no = no THEN ended.targets
  ELSE LET i == CHOOSE k \in 1..Len(ts) : ts[k].log.no = no IN ts[i].log.targets

\* The name of an agent contains the name a message mentions.
Mentions(content, agent) ==
  includes(toLowerCase(Chars(agent.name)), toLowerCase(mentionMatch(content)))

C24_LinksLive ==
  \A l \in Range(load(ls, KEYS.roomAgents)) :
    /\ \E r \in Range(load(ls, KEYS.rooms)) : r.id = l.room_id
    /\ \E a \in Range(load(ls, KEYS.agents)) : a.id = l.agent_id

\* C25: every stored message has the room_id of a room the store holds, also
\* when deleteFolder runs while a turn of a room of the folder awaits a reply.
C25_MessagesLive ==
  \A m \in Range(load(ls, KEYS.messages)) :
    \E r \in Range(load(ls, KEYS.rooms)) : r.id = m.room_id

\* C26: when every completion call returns or fails, a turn that set the busy
\* flag ends with the flag cleared.
C26_BusyFlagCleared == isLoading ~> ~isLoading

\* C26 witness: a turn whose first agent answered and whose second completion
\* call threw has ended, and the busy flag is clear.
C26_Witness ==
  /\ turnLog.no > 0
  /\ turnLog.failedAt = 2
  /\ Len(turnLog.msgs) = 2
  /\ turns = <<>>
  /\ ~isLoading

\* C27: the user message of a turn is stored under the room that is active when
\* it is sent, and every reply of the turn under the room of that user message,
\* whatever room or folder is active when the reply arrives.
C27_TurnKeepsRoom ==
  [][/\ (last'.op = "sendMessage" /\ last'.txt # "ignored")
          => (load(ls', KEYS.messages) # <<>> /\ LastMessage(ls').room_id = activeRoom.id)
     /\ last'.op = "completionReturns"
          => \E i \in 1..Len(turns) :
               /\ load(ls', KEYS.messages) # <<>>
               /\ LastMessage(ls').id = MsgId(nM')
               /\ LastMessage(ls').room_id = turns[i].userMessage.room_id
               /\ \A m \in Range(load(ls', KEYS.messages)) :
                    m.room_id # turns[i].userMessage.room_id
                      => m \in Range(load(ls, KEYS.messages))]_vars

\* C27 witness: a reply was stored, under the room of its turn, while another
\* room of another folder was active.
C27_Witness ==
  /\ last.op = "completionReturns"
  /\ load(ls, KEYS.messages) # <<>>
  /\ LastMessage(ls).role = "model"
  /\ activeRoom # NoRoom
  /\ activeRoom.id # LastMessage(ls).room_id
  /\ activeFolder # NoFolder
  /\ activeFolder.id # activeRoom.folder_id

\* ------------------------------------------------------------------ claims: the archive read back
\* What the reads of a store return.
Reads(s) ==
  [folders |-> getFolders(s),
   agents |-> getAllAgents(s),
   messages |-> [r \in {RoomId(1), RoomId(2)} |-> getMessages(s, r)],
   links |-> [r \in {RoomId(1), RoomId(2)} |-> getRoomAgentIds(s, r)],
   settings |-> getAISettings(s)]

\* C28: after exportAllData and importAllData of that archive every read
\* returns what it returned before the export, also for keys never written;
\* getAISettings still returns the default settings when none were saved.
C28_ReadsRoundTrip ==
  last.op = "importAllData into empty" => Reads(ls) = Reads(exported[1])

\* ------------------------------------------------------------------ claims: what a removal leaves
\* The records of a folder: itself, its rooms and agents, and the links and
\* messages of its rooms, each in stored order.
RecordsOf(s, folder) ==
  [folder |-> SelectSeq(load(s, KEYS.folders), LAMBDA f : f.id = folder.id),
   rooms |-> getRooms(s, folder.id),
   agents |-> getAgents(s, folder.id),
   links |-> SelectSeq(load(s, KEYS.roomAgents),
                       LAMBDA ra : \E r \in Range(getRooms(s, folder.id)) : r.id = ra.room_id),
   messages |-> SelectSeq(load(s, KEYS.messages),
                          LAMBDA m : \E r \in Range(getRooms(s, folder.id)) : r.id = m.room_id)]

\* C29: removeFolder(F.id) leaves every folder whose parent_id is F.id in the
\* store, with its rooms, agents, links and messages, and changes no field of
\* them.
C29_RemoveFolderNotRecursive ==
  [][last'.op = "removeFolder"
       => \A c \in Range(load(ls, KEYS.folders)) :
            (c.parent_id = last'.a /\ c.id # last'.a)
              => /\ RecordsOf(ls', c) = RecordsOf(ls, c)
                 /\ RecordsOf(ls', c).folder = << c >>]_vars

\* C29 witness: a folder was removed whose child folder, with a room, an agent,
\* a link and a message, is in the store.
C29_Witness ==
  /\ last.op = "removeFolder"
  /\ last.b >= 1
  /\ \E c \in Range(load(ls, KEYS.folders)) :
       /\ c.parent_id = last.a
       /\ RecordsOf(ls, c).rooms # <<>>
       /\ RecordsOf(ls, c).agents # <<>>
       /\ RecordsOf(ls, c).links # <<>>
       /\ RecordsOf(ls, c).messages # <<>>

\* C30: removeAgent(id) takes away the agent with that id and the links with
\* that agent_id, and leaves the folders, the rooms, the other agents, the other
\* links and all messages, those of the agent too; with no agent of that id the
\* agents are as before.
C30_RemoveAgentFrame ==
  [][last'.op = "removeAgent"
       => /\ load(ls', KEYS.agents) = SelectSeq(load(ls, KEYS.agents), LAMBDA a : a.id # last'.a)
          /\ load(ls', KEYS.roomAgents)
               = SelectSeq(load(ls, KEYS.roomAgents), LAMBDA ra : ra.agent_id # last'.a)
          /\ \A k \in {KEYS.folders, KEYS.rooms, KEYS.messages} : ls'[k] = ls[k]
          /\ (\A a \in Range(load(ls, KEYS.agents)) : a.id # last'.a)
               => load(ls', KEYS.agents) = load(ls, KEYS.agents)]_vars

\* C30 witness: removeAgent took an agent and a link away; a message of that
\* agent, another agent and a link of the other agent are in the store.
C30_Witness ==
  /\ last.op = "removeAgent"
  /\ last.b >= 2
  /\ \E m \in Range(load(ls, KEYS.messages)) : m.agent_id = last.a
  /\ load(ls, KEYS.agents) # <<>>
  /\ load(ls, KEYS.roomAgents) # <<>>

====
